---- MODULE Spec2Model ----
(***************************************************************************)
(* hterm.NaSSH.GoogleRelay.Socket (hterm/js/google_relay.js): the XHR      *)
(* backed stream that talks to the HTTP-to-SSH relay.  One socket, its     *)
(* session request, its read request (hanging GET on /read), its write     *)
(* request (queued GETs on /write), and the retry timers set by            *)
(* onRequestError_.                                                        *)
(*                                                                         *)
(* Every callback of the socket runs to completion on the single event     *)
(* loop, so each action below is one whole callback.  The callbacks are    *)
(* written as operators from a socket record to a socket record, in the    *)
(* order of the statements of the source, so that a callback that calls    *)
(* another (or an event that runs two handlers) is their composition.      *)
(* A callback that throws ends there: what it assigned before the throw    *)
(* stays.                                                                  *)
(*                                                                         *)
(* Strings are kept as their runs of equal characters (see Strings).       *)
(***************************************************************************)
EXTENDS Integers, Sequences, FiniteSets, TLC

VARIABLES
    \* the socket's fields
    lifecycle,       \* Stream state: "Opening", "Open" or "Closed"
    sessionID_,      \* "none" until the /proxy request answers 200
    backoffMS_,
    writeQueue_,
    writeCount_,
    readCount_,
    \* the browser: the three XMLHttpRequests and the pending timeouts
    sessionRequest,  \* "unsent", "inflight" or "done"
    readRequest_,    \* the last /read request opened and whether it is in flight
    writeRequest_,   \* the last /write request opened and whether it is in flight
    timers,          \* number of pending timeouts per retry function
    \* the transient failures the transport may still produce, and how much
    \* the caller writes and the relay sends (fixed by the initial state)
    failuresLeft,
    limit,
    \* what the socket did, as seen from outside
    delivered,       \* arguments of onDataAvailable, in call order
    overlays,        \* durations passed to showOverlay since the last success
    openComplete,    \* arguments of onComplete, in call order
    enqueued,        \* chunks pushed on writeQueue_, in push order
    acked,           \* chunks carried by the write requests that completed with 200
    retryDelays,     \* delays passed to setTimeout since the last success
    overlap,         \* per request: was it ever sent while still in flight
    reads,           \* the /read requests: how many were sent and completed, did
                     \* one fail, did one answer 410, did the last one fail
    lastFailedWrite, \* the write request that failed last, until a write succeeds
    received,        \* bodies of the /read responses with status 200, in the order
                     \* they completed
    writeGone,       \* did a /write request answer 410
    probe            \* the argument and the result of the call under study, in the
                     \* runs that call one method on its own

vars == <<lifecycle, sessionID_, backoffMS_, writeQueue_, writeCount_, readCount_,
          sessionRequest, readRequest_, writeRequest_, timers, failuresLeft, limit,
          delivered, overlays, openComplete,
          enqueued, acked, retryDelays, overlap, reads,
          lastFailedWrite, received, writeGone, probe>>

----------------------------------------------------------------------------
(* Bounds of the model *)

\* transient failures (error events and non-200/410 statuses) the transport produces
MaxFailures == 2
\* chunks on the write queue, acknowledged ones included, after which the
\* caller stops writing
MaxEnqueued == 2
\* chunks delivered to onDataAvailable after which the relay has no more data
MaxReads == 2

\* the same for the runs about the backoff
MaxBackoffFailures == 5
BackoffEnqueued == 1
BackoffReads == 1

\* the runs of asyncWrite alone: calls made, and the longest payload in
\* messages of maxMessageLength
MaxChunkWrites == 2
MaxChunks == 3

\* the runs of the two conversions alone: characters of the longest base64
\* string before its padding
MaxCodecLen == 4

(* Program constants *)

maxMessageLength == 1024

----------------------------------------------------------------------------
(* Strings.  A string is kept as its runs: "AAA/w" is <<Run("A", 3),
   Run("/", 1), Run("w", 1)>>.  No run is empty and neighbouring runs differ
   in their character, so equal strings are equal sequences. *)

Run(c, n) == [c |-> c, n |-> n]

\* s.length
RECURSIVE Length(_)
Length(s) == IF s = << >> THEN 0 ELSE Head(s).n + Length(Tail(s))

\* s + t
Concat(s, t) ==
    IF s = << >> THEN t
    ELSE IF t = << >> THEN s
    ELSE IF s[Len(s)].c = t[1].c
    THEN SubSeq(s, 1, Len(s) - 1) \o <<Run(t[1].c, s[Len(s)].n + t[1].n)>> \o Tail(t)
    ELSE s \o t

\* the first k characters of s
RECURSIVE Take(_, _)
Take(s, k) ==
    IF k <= 0 \/ s = << >> THEN << >>
    ELSE IF Head(s).n <= k THEN <<Head(s)>> \o Take(Tail(s), k - Head(s).n)
    ELSE <<Run(Head(s).c, k)>>

\* s without its first k characters
RECURSIVE Drop(_, _)
Drop(s, k) ==
    IF k <= 0 \/ s = << >> THEN s
    ELSE IF Head(s).n <= k THEN Drop(Tail(s), k - Head(s).n)
    ELSE <<Run(Head(s).c, Head(s).n - k)>> \o Tail(s)

\* s.substr(start, n)
substr(s, start, n) == Take(Drop(s, start), n)

\* base64 payloads handed to asyncWrite: empty, short with every character
\* class, and one whose web safe form is longer than maxMessageLength
ShortData == <<Run("+", 1), Run("/", 1), Run("=", 2)>>
LongData == <<Run("A", maxMessageLength), Run("/", 1), Run("w", 1), Run("=", 2)>>
Payloads == {<< >>, ShortData, LongData}

\* bodies of /read responses: lengths 2 and 3 are web safe base64, length 5
\* (5 % 4 = 1) is not
ReadBodies == {<<Run("a", 1), Run("-", 1)>>,
               <<Run("_", 1), Run("b", 2)>>,
               <<Run("a", 5)>>}

Floor34(n) == (n * 3) \div 4

----------------------------------------------------------------------------
(* The socket as a record.  Its event field is the event being handled: it
   lives for one action and is no part of the state. *)

Event(src, status) == [src |-> src, status |-> status]

NoEvent == Event("none", 0)

Cur ==
    [lifecycle |-> lifecycle, sessionID_ |-> sessionID_, backoffMS_ |-> backoffMS_,
     writeQueue_ |-> writeQueue_, writeCount_ |-> writeCount_,
     readCount_ |-> readCount_, sessionRequest |-> sessionRequest,
     readRequest_ |-> readRequest_, writeRequest_ |-> writeRequest_,
     timers |-> timers, failuresLeft |-> failuresLeft, limit |-> limit,
     event |-> NoEvent, delivered |-> delivered,
     overlays |-> overlays, openComplete |-> openComplete, enqueued |-> enqueued,
     acked |-> acked, retryDelays |-> retryDelays, overlap |-> overlap,
     reads |-> reads,
     lastFailedWrite |-> lastFailedWrite, received |-> received,
     writeGone |-> writeGone, probe |-> probe]

Set(w) ==
    /\ lifecycle' = w.lifecycle
    /\ sessionID_' = w.sessionID_
    /\ backoffMS_' = w.backoffMS_
    /\ writeQueue_' = w.writeQueue_
    /\ writeCount_' = w.writeCount_
    /\ readCount_' = w.readCount_
    /\ sessionRequest' = w.sessionRequest
    /\ readRequest_' = w.readRequest_
    /\ writeRequest_' = w.writeRequest_
    /\ timers' = w.timers
    /\ failuresLeft' = w.failuresLeft
    /\ limit' = w.limit
    /\ delivered' = w.delivered
    /\ overlays' = w.overlays
    /\ openComplete' = w.openComplete
    /\ enqueued' = w.enqueued
    /\ acked' = w.acked
    /\ retryDelays' = w.retryDelays
    /\ overlap' = w.overlap
    /\ reads' = w.reads
    /\ lastFailedWrite' = w.lastFailedWrite
    /\ received' = w.received
    /\ writeGone' = w.writeGone
    /\ probe' = w.probe

NoRequest == [inflight |-> FALSE, sid |-> "none", cnt |-> 0, data |-> << >>,
              closed |-> FALSE, via |-> NoEvent]

NoFailure == [failed |-> FALSE, cnt |-> 0, data |-> << >>]

\* the socket after its constructor, with the given budgets
Constructed(failures, chunks, bodies) ==
    /\ failuresLeft = failures
    /\ limit = [enqueued |-> chunks, reads |-> bodies]
    /\ lifecycle = "Opening"
    /\ sessionID_ = "none"
    /\ backoffMS_ = 0
    /\ writeQueue_ = << >>
    /\ writeCount_ = 0
    /\ readCount_ = 0
    /\ sessionRequest = "unsent"
    /\ readRequest_ = NoRequest
    /\ writeRequest_ = NoRequest
    /\ timers = [read |-> 0, write |-> 0]
    /\ delivered = << >>
    /\ overlays = << >>
    /\ openComplete = << >>
    /\ enqueued = << >>
    /\ acked = << >>
    /\ retryDelays = << >>
    /\ overlap = [read |-> FALSE, write |-> FALSE]
    /\ reads = [sent |-> 0, done |-> 0, failed |-> FALSE, gone |-> FALSE,
                failedLast |-> FALSE]
    /\ lastFailedWrite = NoFailure
    /\ received = << >>
    /\ writeGone = FALSE

NoProbe == [kind |-> "none", x |-> << >>, before |-> << >>, y |-> << >>,
            threw |-> FALSE, calls |-> 0]

Init == Constructed(MaxFailures, MaxEnqueued, MaxReads) /\ probe = NoProbe

\* few writes and reads, and enough failures in a row for the backoff to pass
\* one second
InitBackoff ==
    Constructed(MaxBackoffFailures, BackoffEnqueued, BackoffReads) /\ probe = NoProbe

----------------------------------------------------------------------------
(* The browser and the collaborators of the socket *)

\* XMLHttpRequest open(...) and send() of the read or the write request.  open()
\* on a request in flight drops that request without any event.
xhrSend(w, r, cnt, data) ==
    LET req == [inflight |-> TRUE, sid |-> w.sessionID_, cnt |-> cnt,
                data |-> data, closed |-> (w.lifecycle = "Closed"),
                via |-> w.event]
    IN  IF r = "read"
        THEN [w EXCEPT !.readRequest_ = req,
                       !.overlap.read = @ \/ w.readRequest_.inflight,
                       !.reads.sent = @ + 1]
        ELSE [w EXCEPT !.writeRequest_ = req,
                       !.overlap.write = @ \/ w.writeRequest_.inflight]

\* setTimeout(retryFunction, ms): the handle it returns is dropped by the caller
setTimeout(w, retryFunction, ms) ==
    [w EXCEPT !.timers[retryFunction] = @ + 1,
              !.retryDelays = Append(@, ms)]

\* this.relay_.io.showOverlay(msg, ms)
showOverlay(w, ms) == [w EXCEPT !.overlays = Append(@, ms)]

\* hterm.NaSSH.Stream.prototype.close: the stream becomes Closed.  The socket
\* keeps no handle of its timeouts and close() does not know the socket's
\* requests, so both stay as they are.
close(w) == [w EXCEPT !.lifecycle = "Closed"]

\* the onDataAvailable callback of the stream
onDataAvailable(w, data) == [w EXCEPT !.delivered = Append(@, data)]

\* the onComplete callback of asyncOpen_: the stream becomes Open on success
onComplete(w, success) ==
    [w EXCEPT !.openComplete = Append(@, success),
              !.lifecycle = IF success /\ @ = "Opening" THEN "Open" ELSE @]

\* this.onRequestError (no trailing underscore) is not a property of the socket
\* or of its prototype: calling it throws a TypeError and the callback ends.
onRequestError(w, target) == w

----------------------------------------------------------------------------
(* The socket's methods *)

resumeRead_(w) == xhrSend(w, "read", w.readCount_, << >>)

\* (a variant of serviceWriteQueue_: the message is taken from the wrong end
\* of the queue)
serviceWriteQueueLast(w) ==
    IF Len(w.writeQueue_) = 0
    THEN w
    ELSE LET msg == w.writeQueue_[Len(w.writeQueue_)]
         IN  xhrSend(w, "write", w.writeCount_, msg)

serviceWriteQueue_(w) ==
    IF Len(w.writeQueue_) = 0
    THEN w
    ELSE LET msg == w.writeQueue_[1]
         IN  xhrSend(w, "write", w.writeCount_, msg)

\* s.replace(/[+/=]/g, ...): '+' -> '-', '/' -> '_', '=' removed
RECURSIVE base64ToWebSafe_(_)
base64ToWebSafe_(s) ==
    IF s = << >> THEN << >>
    ELSE LET ch == Head(s).c
             rest == base64ToWebSafe_(Tail(s))
         IN  IF ch = "+" THEN Concat(<<Run("-", Head(s).n)>>, rest)
             ELSE IF ch = "/" THEN Concat(<<Run("_", Head(s).n)>>, rest)
             ELSE IF ch = "=" THEN rest
             ELSE Concat(<<Head(s)>>, rest)

\* s.replace(/[-_]/g, ...): '-' -> '+', everything else matched ('_') -> '/'
RECURSIVE replaceWebSafe(_)
replaceWebSafe(s) ==
    IF s = << >> THEN << >>
    ELSE LET ch == Head(s).c
             rest == replaceWebSafe(Tail(s))
         IN  IF ch = "-" THEN Concat(<<Run("+", Head(s).n)>>, rest)
             ELSE IF ch = "_" THEN Concat(<<Run("/", Head(s).n)>>, rest)
             ELSE Concat(<<Head(s)>>, rest)

\* (a variant of webSafeToBase64_: the two paddings are exchanged)
webSafeToBase64Swapped(w, s) ==
    LET t == replaceWebSafe(s)
    IN  IF Length(t) % 4 = 2
        THEN [w |-> w, threw |-> FALSE, s |-> Concat(t, <<Run("=", 1)>>)]
        ELSE IF Length(t) % 4 = 3
        THEN [w |-> w, threw |-> FALSE, s |-> Concat(t, <<Run("=", 2)>>)]
        ELSE IF Length(t) % 4 # 0
        THEN [w |-> close(w), threw |-> TRUE, s |-> << >>]
        ELSE [w |-> w, threw |-> FALSE, s |-> t]

\* (a variant of webSafeToBase64_: it throws without closing the stream)
webSafeToBase64NoClose(w, s) ==
    LET t == replaceWebSafe(s)
    IN  IF Length(t) % 4 = 2
        THEN [w |-> w, threw |-> FALSE, s |-> Concat(t, <<Run("=", 2)>>)]
        ELSE IF Length(t) % 4 = 3
        THEN [w |-> w, threw |-> FALSE, s |-> Concat(t, <<Run("=", 1)>>)]
        ELSE IF Length(t) % 4 # 0
        THEN [w |-> w, threw |-> TRUE, s |-> << >>]
        ELSE [w |-> w, threw |-> FALSE, s |-> t]

\* the replace, then the padding; length % 4 = 1 closes the stream and throws
webSafeToBase64_(w, s) ==
    LET t == replaceWebSafe(s)
    IN  IF Length(t) % 4 = 2
        THEN [w |-> w, threw |-> FALSE, s |-> Concat(t, <<Run("=", 2)>>)]
        ELSE IF Length(t) % 4 = 3
        THEN [w |-> w, threw |-> FALSE, s |-> Concat(t, <<Run("=", 1)>>)]
        ELSE IF Length(t) % 4 # 0
        THEN [w |-> close(w), threw |-> TRUE, s |-> << >>]
        ELSE [w |-> w, threw |-> FALSE, s |-> t]

\* this.writeQueue_.push(chunk)
push(w, chunk) ==
    [w EXCEPT !.writeQueue_ = Append(@, chunk), !.enqueued = Append(@, chunk)]

\* (a variant of needService: every asyncWrite services the queue)
needServiceAlways(w) == TRUE

\* var needService = !this.writeQueue_.length
needService(w) == Len(w.writeQueue_) = 0

\* (a variant of pushMessages: the loop also runs for data of exactly
\* maxMessageLength characters)
RECURSIVE pushMessagesInclusive(_, _)
pushMessagesInclusive(w, data) ==
    IF Length(data) >= maxMessageLength
    THEN pushMessagesInclusive(push(w, substr(data, 0, maxMessageLength)),
                               substr(data, maxMessageLength, Length(data)))
    ELSE push(w, data)

\* the while loop of asyncWrite and the push after it
RECURSIVE pushMessages(_, _)
pushMessages(w, data) ==
    IF Length(data) > maxMessageLength
    THEN pushMessages(push(w, substr(data, 0, maxMessageLength)),
                      substr(data, maxMessageLength, Length(data)))
    ELSE push(w, data)

asyncWrite(w, data, onWrite) ==
    IF onWrite THEN w                      \* throw 'Write callback not implemented.'
    ELSE IF Length(data) = 0 THEN w
    ELSE LET service == needService(w)
             w1 == pushMessages(w, base64ToWebSafe_(data))
         IN  IF service THEN serviceWriteQueue_(w1) ELSE w1

clearBackoff_(w) == [w EXCEPT !.backoffMS_ = 0]

\* (a variant of nextBackoff: the additive term is lost)
nextBackoffDoubling(b) == b * 2

\* this.backoffMS_ * 2 + 93
nextBackoff(b) == b * 2 + 93

\* (a variant of onRequestError_: the notice is shown after the backoff was
\* advanced for the next failure)
onRequestErrorLateOverlay(w, target) ==
    LET b  == IF w.backoffMS_ = 0 THEN 1 ELSE w.backoffMS_
        w1 == setTimeout([w EXCEPT !.backoffMS_ = b], target, b)
        w2 == [w1 EXCEPT !.backoffMS_ = nextBackoff(b)]
    IN  IF w2.backoffMS_ >= 1000 THEN showOverlay(w2, w2.backoffMS_ + 500) ELSE w2

onRequestError_(w, target) ==
    LET b  == IF w.backoffMS_ = 0 THEN 1 ELSE w.backoffMS_
        w1 == [w EXCEPT !.backoffMS_ = b]
        w2 == IF b >= 1000 THEN showOverlay(w1, b + 500) ELSE w1
        w3 == setTimeout(w2, target, b)
    IN  [w3 EXCEPT !.backoffMS_ = nextBackoff(b)]

\* (a variant of onReadReady_: the session-gone test takes the 401 of the
\* file's header comment for the 410 of the relay)
onReadReadyGone401(w, status, responseText) ==
    IF status = 401 THEN close(w)
    ELSE IF status # 200 THEN onRequestError(w, "read")
    ELSE LET w1 == [w EXCEPT !.readCount_ = @ + Floor34(Length(responseText))]
             r  == webSafeToBase64_(w1, responseText)
         IN  IF r.threw THEN r.w
             ELSE resumeRead_(clearBackoff_(onDataAvailable(r.w, r.s)))

\* (a variant of onReadReady_: readCount_ advances by the length of the body)
onReadReadyRawCount(w, status, responseText) ==
    IF status = 410 THEN close(w)
    ELSE IF status # 200 THEN onRequestError(w, "read")
    ELSE LET w1 == [w EXCEPT !.readCount_ = @ + Length(responseText)]
             r  == webSafeToBase64_(w1, responseText)
         IN  IF r.threw THEN r.w
             ELSE resumeRead_(clearBackoff_(onDataAvailable(r.w, r.s)))

\* loadend of the read request; readyState is 4 at every loadend
onReadReady_(w, status, responseText) ==
    IF status = 410 THEN close(w)
    ELSE IF status # 200 THEN onRequestError(w, "read")
    ELSE LET w1 == [w EXCEPT !.readCount_ = @ + Floor34(Length(responseText))]
             r  == webSafeToBase64_(w1, responseText)
         IN  IF r.threw THEN r.w
             ELSE resumeRead_(clearBackoff_(onDataAvailable(r.w, r.s)))

\* (a variant of onWriteDone_: the test for a status other than 200 is missing)
onWriteDoneAnyStatus(w, status) ==
    IF status = 410 THEN close(w)
    ELSE IF Len(w.writeQueue_) = 0 THEN w
    ELSE LET lastCount == Length(w.writeQueue_[1])
             w1 == [w EXCEPT !.writeQueue_ = Tail(@),
                             !.writeCount_ = @ + Floor34(lastCount)]
         IN  serviceWriteQueue_(clearBackoff_(w1))

\* (a variant of onWriteDone_: the session-gone test takes the 401 of the
\* file's header comment for the 410 of the relay)
onWriteDoneGone401(w, status) ==
    IF status = 401 THEN close(w)
    ELSE IF status # 200 THEN onRequestError(w, "write")
    ELSE IF Len(w.writeQueue_) = 0 THEN w
    ELSE LET lastCount == Length(w.writeQueue_[1])
             w1 == [w EXCEPT !.writeQueue_ = Tail(@),
                             !.writeCount_ = @ + Floor34(lastCount)]
         IN  serviceWriteQueue_(clearBackoff_(w1))

\* (a variant of onWriteDone_: lastCount is read after the shift, from the
\* new head of the queue)
onWriteDoneCountAfterShift(w, status) ==
    IF status = 410 THEN close(w)
    ELSE IF status # 200 THEN onRequestError(w, "write")
    ELSE IF Len(w.writeQueue_) = 0 THEN w
    ELSE LET rest == Tail(w.writeQueue_)
             lastCount == IF rest = << >> THEN 0 ELSE Length(rest[1])
             w1 == [w EXCEPT !.writeQueue_ = rest,
                             !.writeCount_ = @ + Floor34(lastCount)]
         IN  serviceWriteQueue_(clearBackoff_(w1))

\* loadend of the write request; readyState is 4 at every loadend
onWriteDone_(w, status) ==
    IF status = 410 THEN close(w)
    ELSE IF status # 200 THEN onRequestError(w, "write")
    ELSE IF Len(w.writeQueue_) = 0 THEN w  \* writeQueue_[0].length throws
    ELSE LET lastCount == Length(w.writeQueue_[1])
             w1 == [w EXCEPT !.writeQueue_ = Tail(@),
                             !.writeCount_ = @ + Floor34(lastCount)]
         IN  serviceWriteQueue_(clearBackoff_(w1))

\* asyncOpen_: the /proxy request is sent
asyncOpen_(w) == [w EXCEPT !.sessionRequest = "inflight"]

\* onError of asyncOpen_
onError(w) == onComplete(w, FALSE)

\* onReady of asyncOpen_ (loadend of the session request)
onReady(w, status, responseText) ==
    IF status # 200 THEN onError(w)
    ELSE onComplete(resumeRead_([w EXCEPT !.sessionID_ = responseText]), TRUE)

----------------------------------------------------------------------------
(* Events: each action is one task of the event loop *)

\* a status that is neither 200 nor 410
TransientStatus == 500

\* a 200 body that webSafeToBase64_ accepts
Decodable(body) == Length(body) % 4 # 1

\* the bookkeeping of a request that ended well: the logs kept "since the last
\* success" start again
Succeeded(w) == [w EXCEPT !.retryDelays = << >>, !.overlays = << >>]

\* hterm.NaSSH.Stream.openStream calls asyncOpen_ on the new socket
AsyncOpen ==
    /\ sessionRequest = "unsent"
    /\ Set(asyncOpen_([Cur EXCEPT !.event = Event("user.asyncOpen_", 0)]))

\* the /proxy request completes with a status: loadend -> onReady
SessionLoadEnd(status) ==
    /\ sessionRequest = "inflight"
    /\ Set(onReady([Cur EXCEPT !.sessionRequest = "done",
                               !.event = Event("session.loadend", status)],
                   status, "sid"))

\* the /proxy request ends in error, abort or timeout: the browser fires that
\* event (onError) and then loadend (onReady, with status 0)
SessionError ==
    /\ sessionRequest = "inflight"
    /\ Set(onReady(onError([Cur EXCEPT !.sessionRequest = "done",
                                       !.event = Event("session.error", 0)]),
                   0, ""))

\* the caller writes
AsyncWrite(data, onWrite) ==
    /\ Len(enqueued) < limit.enqueued
    /\ Set(asyncWrite([Cur EXCEPT !.event = Event("user.asyncWrite", 0)],
                      data, onWrite))

\* the caller closes the stream
Close ==
    /\ lifecycle # "Closed"
    /\ Set(close([Cur EXCEPT !.event = Event("user.close", 0)]))

\* the /read request completes with a status: loadend -> onReadReady_
ReadLoadEnd(status, body) ==
    /\ readRequest_.inflight
    /\ status = 200 => Len(delivered) < limit.reads
    /\ status = TransientStatus => failuresLeft > 0 /\ body = << >>
    /\ status = 410 => body = << >>
    /\ LET w0 == [Cur EXCEPT !.readRequest_.inflight = FALSE,
                             !.event = Event("read.loadend", status),
                             !.reads = [@ EXCEPT
                                 !.done = @ + 1,
                                 !.failed = @ \/ status = TransientStatus,
                                 !.gone = @ \/ status = 410,
                                 !.failedLast = (status = TransientStatus)],
                             !.received =
                                 IF status = 200 THEN Append(@, body) ELSE @,
                             !.failuresLeft =
                                 IF status = TransientStatus THEN @ - 1 ELSE @]
           w1 == IF status = 200 /\ Decodable(body) THEN Succeeded(w0) ELSE w0
       IN  Set(onReadReady_(w1, status, body))

\* the /read request ends in error, abort or timeout: the browser fires that
\* event (onRequestError_) and then loadend (onReadReady_, with status 0)
ReadError ==
    /\ readRequest_.inflight
    /\ failuresLeft > 0
    /\ LET w0 == [Cur EXCEPT !.readRequest_.inflight = FALSE,
                             !.event = Event("read.error", 0),
                             !.reads = [@ EXCEPT !.done = @ + 1, !.failed = TRUE,
                                                 !.failedLast = TRUE],
                             !.failuresLeft = @ - 1]
       IN  Set(onReadReady_(onRequestError_(w0, "read"), 0, << >>))

\* a timeout set with retryFunction = resumeRead_ expires
ReadTimer ==
    /\ timers.read > 0
    /\ Set(resumeRead_([Cur EXCEPT !.timers.read = @ - 1,
                                   !.event = Event("read.timer", 0)]))

\* the /write request completes with a status: loadend -> onWriteDone_
WriteLoadEnd(status) ==
    /\ writeRequest_.inflight
    /\ status = TransientStatus => failuresLeft > 0
    /\ LET w0 == [Cur EXCEPT !.writeRequest_.inflight = FALSE,
                             !.event = Event("write.loadend", status),
                             !.failuresLeft =
                                 IF status = TransientStatus THEN @ - 1 ELSE @,
                             !.acked = IF status = 200
                                       THEN Append(@, writeRequest_.data) ELSE @,
                             !.writeGone = @ \/ status = 410,
                             !.lastFailedWrite =
                                 IF status = 200 THEN NoFailure
                                 ELSE IF status = TransientStatus
                                 THEN [failed |-> TRUE, cnt |-> writeRequest_.cnt,
                                       data |-> writeRequest_.data]
                                 ELSE @]
           w1 == IF status = 200 THEN Succeeded(w0) ELSE w0
       IN  Set(onWriteDone_(w1, status))

\* the /write request ends in error, abort or timeout: the browser fires that
\* event (onRequestError_) and then loadend (onWriteDone_, with status 0)
WriteError ==
    /\ writeRequest_.inflight
    /\ failuresLeft > 0
    /\ LET w0 == [Cur EXCEPT !.writeRequest_.inflight = FALSE,
                             !.event = Event("write.error", 0),
                             !.failuresLeft = @ - 1,
                             !.lastFailedWrite =
                                 [failed |-> TRUE, cnt |-> writeRequest_.cnt,
                                  data |-> writeRequest_.data]]
       IN  Set(onWriteDone_(onRequestError_(w0, "write"), 0))

\* a timeout set with retryFunction = serviceWriteQueue_ expires
WriteTimer ==
    /\ timers.write > 0
    /\ Set(serviceWriteQueue_([Cur EXCEPT !.timers.write = @ - 1,
                                          !.event = Event("write.timer", 0)]))

Next ==
    \/ AsyncOpen
    \/ \E status \in {200, TransientStatus} : SessionLoadEnd(status)
    \/ SessionError
    \/ \E data \in Payloads, onWrite \in BOOLEAN : AsyncWrite(data, onWrite)
    \/ Close
    \/ \E status \in {200, 410, TransientStatus}, body \in ReadBodies \cup {<< >>} :
          ReadLoadEnd(status, body)
    \/ ReadError
    \/ ReadTimer
    \/ \E status \in {200, 410, TransientStatus} : WriteLoadEnd(status)
    \/ WriteError
    \/ WriteTimer

Spec == Init /\ [][Next]_vars

\* The event loop runs every expired timeout, and the relay answers the
\* session request and every write request.
WriteCompletes == (\E status \in {200, 410, TransientStatus} : WriteLoadEnd(status))
                      \/ WriteError
SessionCompletes == (\E status \in {200, TransientStatus} : SessionLoadEnd(status))
                        \/ SessionError

FairSpec ==
    /\ Spec
    /\ WF_vars(AsyncOpen)
    /\ WF_vars(SessionCompletes)
    /\ WF_vars(ReadTimer)
    /\ WF_vars(WriteTimer)
    /\ WF_vars(WriteCompletes)

BackoffSpec == InitBackoff /\ [][Next]_vars

----------------------------------------------------------------------------
(* asyncWrite on its own: the caller writes base64 payloads whose web safe
   form is around the multiples of maxMessageLength, and no request completes *)

\* the base64 string of the unpadded string s: '=' up to a multiple of four
Padded(s) ==
    IF Length(s) % 4 = 2 THEN Concat(s, <<Run("=", 2)>>)
    ELSE IF Length(s) % 4 = 3 THEN Concat(s, <<Run("=", 1)>>)
    ELSE s

\* lengths a base64 string can have before its padding (never 1 modulo 4),
\* two below to three above each multiple of maxMessageLength
ChunkLengths ==
    {n \in {k * maxMessageLength + d : k \in 0..MaxChunks, d \in {-2, -1, 0, 2, 3}} :
        n > 0}

\* all 'A', or starting with '+' and ending with '/'
ChunkPayloads ==
    {Padded(<<Run("A", n)>>) : n \in ChunkLengths}
        \cup {Padded(<<Run("+", 1), Run("A", n - 2), Run("/", 1)>>) :
                  n \in {m \in ChunkLengths : m >= 3}}
        \cup {<< >>}

ChunkInit == Constructed(0, 0, 0) /\ probe = NoProbe

ChunkWrite(data) ==
    /\ probe.calls < MaxChunkWrites
    /\ Set(asyncWrite([Cur EXCEPT !.event = Event("user.asyncWrite", 0),
                                  !.probe = [NoProbe EXCEPT
                                                !.kind = "asyncWrite",
                                                !.x = data,
                                                !.before = writeQueue_,
                                                !.calls = probe.calls + 1]],
                      data, FALSE))

ChunkNext == \E data \in ChunkPayloads : ChunkWrite(data)

ChunkSpec == ChunkInit /\ [][ChunkNext]_vars

----------------------------------------------------------------------------
(* The two conversions on their own: base64ToWebSafe_ and then
   webSafeToBase64_, on every base64 string of up to MaxCodecLen characters
   and its padding *)

Base64Alphabet == {"A", "+", "/"}

\* the string of the characters f[1], ..., f[n]
RECURSIVE ToRuns(_, _)
ToRuns(f, n) ==
    IF n = 0 THEN << >> ELSE Concat(ToRuns(f, n - 1), <<Run(f[n], 1)>>)

Base64Strings ==
    UNION {{Padded(ToRuns(f, n)) : f \in [1..n -> Base64Alphabet]} :
              n \in {m \in 0..MaxCodecLen : m % 4 # 1}}

CodecInit ==
    /\ Constructed(0, 0, 0)
    /\ probe \in {[NoProbe EXCEPT !.kind = "input", !.x = x] : x \in Base64Strings}

RoundTrip ==
    /\ probe.kind = "input"
    /\ LET r == webSafeToBase64_(Cur, base64ToWebSafe_(probe.x))
       IN  Set([r.w EXCEPT !.probe = [probe EXCEPT !.kind = "output",
                                                  !.y = r.s,
                                                  !.threw = r.threw,
                                                  !.calls = 1]])

CodecNext == RoundTrip

CodecSpec == CodecInit /\ [][CodecNext]_vars

----------------------------------------------------------------------------
(* Properties *)

\* C1: at most one write request is outstanding at any time: no write request
\* is ever sent while the write request sent before it is still in flight.
C1_OneWriteOutstanding == ~overlap.write

\* a second chunk is being retried by a timer while a third waits behind it
C1_Witness ==
    /\ Len(acked) >= 1
    /\ Len(writeQueue_) >= 2
    /\ writeRequest_.inflight
    /\ writeRequest_.via.src = "write.timer"

\* C2: the chunks acknowledged with a 200 so far, followed by the queue, are the
\* chunks in the order they were pushed: only an acknowledged head leaves the
\* queue and nothing is reordered.
C2_QueueOrder == acked \o writeQueue_ = enqueued

\* two chunks were acknowledged, one after a failed attempt, and one is queued
C2_Witness ==
    /\ Len(acked) >= 2
    /\ writeQueue_ # << >>
    /\ failuresLeft < MaxFailures

\* C3: no read or write request is sent by a retry timer that fires after the
\* stream became Closed.
C3_NoRetryAfterClose ==
    /\ ~(readRequest_.closed /\ readRequest_.via.src = "read.timer")
    /\ ~(writeRequest_.closed /\ writeRequest_.via.src = "write.timer")

\* C4: once the stream is Closed, the completion of a request that was still in
\* flight sends no new read or write request.
C4_NoSendAfterClose ==
    /\ ~(readRequest_.closed /\ readRequest_.via.src = "read.loadend")
    /\ ~(writeRequest_.closed /\ writeRequest_.via.src = "write.loadend")

C6_RetrySameChunk ==
    lastFailedWrite.failed =>
        /\ writeQueue_ # << >>
        /\ writeQueue_[1] = lastFailedWrite.data
        /\ writeCount_ = lastFailedWrite.cnt
        /\ writeRequest_.inflight =>
               /\ writeRequest_.data = lastFailedWrite.data
               /\ writeRequest_.cnt = lastFailedWrite.cnt

\* the failed chunk is being sent again by the retry timer, after an earlier
\* chunk advanced writeCount_ and while a later chunk waits behind it
C6_Witness ==
    /\ lastFailedWrite.failed
    /\ writeRequest_.inflight
    /\ writeRequest_.via.src = "write.timer"
    /\ writeCount_ > 0
    /\ Len(writeQueue_) >= 2

\* C7: after a read request on an open stream failed transiently (an error
\* event or a status other than 200 and 410), the read is issued again with the
\* same rcnt: until it is, its retry timer is pending.
C7_TransientReadRetried ==
    (lifecycle = "Open" /\ reads.failedLast) =>
        \/ timers.read > 0
        \/ readRequest_.inflight /\ readRequest_.cnt = readCount_

\* C8: on a stream that becomes and stays Open, with timers that fire and a
\* relay that answers every write and fails only finitely often, every chunk
\* enqueued is eventually acknowledged and removed from the queue.
C8_WritesEventuallyAcked ==
    <>[](lifecycle = "Open") => <>[](writeQueue_ = << >>)

\* the delay the next failure of a read, and of a write, passes to setTimeout
ReadRetryDelay == IF backoffMS_ = 0 THEN 1 ELSE backoffMS_
WriteRetryDelay == IF backoffMS_ = 0 THEN 1 ELSE backoffMS_

\* the step is the transient failure, or the success, of the request in flight
WriteFails ==
    writeRequest_.inflight /\ ~writeRequest_'.inflight /\ failuresLeft' < failuresLeft
ReadFails ==
    readRequest_.inflight /\ ~readRequest_'.inflight /\ failuresLeft' < failuresLeft
WriteSucceeds == Len(acked') > Len(acked)
ReadSucceeds == Len(delivered') > Len(delivered)

\* C9: the two paths back off independently: a failure or a success of a write
\* leaves the delay of the next read retry as it is, and a failure or a success
\* of a read leaves the delay of the next write retry as it is.
C9_IndependentBackoff ==
    [][/\ (WriteFails \/ WriteSucceeds) => ReadRetryDelay' = ReadRetryDelay
       /\ (ReadFails \/ ReadSucceeds) => WriteRetryDelay' = WriteRetryDelay]_vars

\* the i-th delay of a run of failures: 1, 95, 283, 659, 1411, ...
RECURSIVE BackoffDelay(_)
BackoffDelay(i) == IF i <= 1 THEN 1 ELSE BackoffDelay(i - 1) * 2 + 93

\* C10: the delays used for the failures since the last success are 1, 95, 283,
\* 659, 1411, ... and the backoff is 0 after a success (and before any
\* failure), so that the first failure uses the delay 1.
C10_BackoffSequence ==
    /\ \A i \in 1..Len(retryDelays) : retryDelays[i] = BackoffDelay(i)
    /\ Len(retryDelays) <= 5 =>
           retryDelays = SubSeq(<<1, 95, 283, 659, 1411>>, 1, Len(retryDelays))
    /\ retryDelays = << >> => backoffMS_ = 0
    /\ retryDelays # << >> =>
           backoffMS_ = retryDelays[Len(retryDelays)] * 2 + 93

\* five failures in a row after a success
C10_Witness ==
    /\ retryDelays = <<1, 95, 283, 659, 1411>>
    /\ Len(acked) + Len(delivered) >= 1

\* the notices expected for a run of delays: one per delay of at least 1000 ms,
\* lasting 500 ms longer
RECURSIVE ExpectedOverlays(_)
ExpectedOverlays(delays) ==
    IF delays = << >> THEN << >>
    ELSE (IF Head(delays) >= 1000 THEN <<Head(delays) + 500>> ELSE << >>)
             \o ExpectedOverlays(Tail(delays))

\* C11: a failed request shows the retry notice exactly when the delay of its
\* retry is at least 1000 ms, once, for that delay plus 500 ms: the notices
\* shown since the last success are those of the delays used since then.
C11_OverlayPerLongDelay == overlays = ExpectedOverlays(retryDelays)

\* the fifth failure in a row waits 1411 ms and shows the notice for 1911 ms
C11_Witness ==
    /\ retryDelays = <<1, 95, 283, 659, 1411>>
    /\ overlays = <<1911>>

\* C12: once the session request is over, onComplete was called exactly once,
\* with true exactly when the relay answered 200 (the session id is set), and
\* after a failure no read request was sent.
C12_OpenCompleteOnce ==
    sessionRequest = "done" =>
        /\ Len(openComplete) = 1
        /\ openComplete[1] = (sessionID_ # "none")
        /\ ~openComplete[1] => reads.sent = 0

\* C13: while the stream is not Open (Opening or Closed), asyncWrite enqueues
\* nothing and sends no write request.
C13_WriteOnlyWhenOpen ==
    [][lifecycle # "Open" =>
          /\ enqueued' = enqueued
          /\ ~(writeRequest_' # writeRequest_
                  /\ writeRequest_'.via.src = "user.asyncWrite")]_vars

\* C14: after a write request answered 410 the stream is closed and the write
\* queue is empty, and no write request is in flight or waiting for its timer.
C14_QueueDiscarded ==
    writeGone =>
        /\ lifecycle = "Closed"
        /\ writeQueue_ = << >>
        /\ ~writeRequest_.inflight
        /\ timers.write = 0

\* C14 (amended): after a write request answered 410 the stream is closed and
\* no write request is sent any more (none is in flight, none waits for its
\* timer); the queue is not emptied, the chunk the relay refused stays at its
\* head.
C14_NoWriteAfterGone ==
    writeGone =>
        /\ lifecycle = "Closed"
        /\ ~writeRequest_.inflight
        /\ timers.write = 0
        /\ writeQueue_ # << >>
        /\ Head(writeQueue_) = writeRequest_.data

\* a write answered 410 with a second chunk behind the one it carried, after
\* an earlier chunk was acknowledged
C14_Witness == writeGone /\ Len(writeQueue_) >= 2 /\ Len(acked) >= 1

\* s[1] + ... + s[Len(s)]
RECURSIVE ConcatAll(_)
ConcatAll(s) == IF s = << >> THEN << >> ELSE Concat(Head(s), ConcatAll(Tail(s)))

\* the chunks the last asyncWrite appended to the queue
Appended == SubSeq(writeQueue_, Len(probe.before) + 1, Len(writeQueue_))

\* C15: asyncWrite of a non-empty payload appends ceil(n / 1024) chunks to the
\* queue, n the length of the payload's web safe form; each has 1 to 1024
\* characters, and together, in queue order, they are that web safe form.
C15_Chunking ==
    (probe.kind = "asyncWrite" /\ probe.x # << >>) =>
        LET encoded == base64ToWebSafe_(probe.x)
        IN  /\ SubSeq(writeQueue_, 1, Len(probe.before)) = probe.before
            /\ Len(Appended) =
                   (Length(encoded) + maxMessageLength - 1) \div maxMessageLength
            /\ \A i \in 1..Len(Appended) :
                   Length(Appended[i]) \in 1..maxMessageLength
            /\ ConcatAll(Appended) = encoded

\* a payload of 2048 web safe characters written behind an earlier one: two
\* full chunks
C15_Witness ==
    /\ probe.kind = "asyncWrite"
    /\ probe.before # << >>
    /\ Length(base64ToWebSafe_(probe.x)) = 2 * maxMessageLength
    /\ Len(Appended) = 2

\* C16: base64ToWebSafe_ and then webSafeToBase64_ give back every padded
\* base64 string, without throwing.
C16_RoundTrip ==
    probe.kind = "output" => ~probe.threw /\ probe.y = probe.x

\* a string with '+', '/' and two characters of padding came back
C16_Witness ==
    /\ probe.kind = "output"
    /\ probe.y = <<Run("+", 1), Run("/", 1), Run("=", 2)>>

\* a 200 response whose body webSafeToBase64_ refuses was received
Malformed(bodies) == \E i \in 1..Len(bodies) : ~Decodable(bodies[i])

\* C17: once a 200 read response with a body of length 1 modulo 4 was handled,
\* the stream is closed, that response is the last one received and the only
\* one not delivered, and no read request is in flight or waits for its timer.
C17_MalformedReadIsFatal ==
    Malformed(received) =>
        /\ lifecycle = "Closed"
        /\ ~Decodable(received[Len(received)])
        /\ Len(delivered) = Len(received) - 1
        /\ ~readRequest_.inflight
        /\ timers.read = 0
        /\ reads.sent = reads.done

\* such a response arrived on an open stream after a good one was delivered
C17_Witness ==
    /\ Malformed(received)
    /\ Len(received) = 2
    /\ Len(delivered) = 1
    /\ readRequest_.via.src = "read.loadend"
    /\ ~readRequest_.closed

RECURSIVE SumFloor34(_)
SumFloor34(s) ==
    IF s = << >> THEN 0 ELSE Floor34(Length(Head(s))) + SumFloor34(Tail(s))

\* the chunks delivered are the first n bodies received, each converted back
\* to base64
DeliveredAre(n) ==
    /\ Len(delivered) = n
    /\ \A i \in 1..n :
           /\ base64ToWebSafe_(delivered[i]) = received[i]
           /\ Length(delivered[i]) % 4 = 0

\* the 200 responses with a body that webSafeToBase64_ accepts: all of them, or
\* all but the last
Accepted ==
    IF received # << >> /\ ~Decodable(received[Len(received)])
    THEN Len(received) - 1
    ELSE Len(received)

\* C18: the chunks passed to onDataAvailable are the 200 read responses in the
\* order they completed, no read request is sent while one is in flight, and
\* the rcnt of the request in flight is the sum of floor(len * 3 / 4) over the
\* bodies delivered.
C18_AllOkReadsDelivered ==
    /\ DeliveredAre(Len(received))
    /\ ~overlap.read
    /\ readRequest_.inflight => readRequest_.cnt = SumFloor34(received)
    /\ readRequest_.cnt <= readCount_

\* C18 (amended): the same for the 200 responses that webSafeToBase64_ accepts;
\* a body of length 1 modulo 4, which can only be the last one received, is
\* counted in readCount_ but not delivered.
C18_InOrderDelivery ==
    /\ \A i \in 1..Accepted : Decodable(received[i])
    /\ DeliveredAre(Accepted)
    /\ ~overlap.read
    /\ readCount_ = SumFloor34(received)
    /\ readRequest_.inflight =>
           Accepted = Len(received) /\ readRequest_.cnt = readCount_
    /\ readRequest_.cnt <= readCount_

\* two different bodies were delivered and the third read carries their count
C18_Witness ==
    /\ Len(delivered) = 2
    /\ delivered[1] # delivered[2]
    /\ readRequest_.inflight
    /\ readRequest_.cnt = 3

\* C19: writeCount_ is the sum of floor(len * 3 / 4) over the chunks
\* acknowledged with 200 (it changes nowhere else), and it is the wcnt of the
\* write request in flight.
C19_WriteCount ==
    /\ writeCount_ = SumFloor34(acked)
    /\ writeRequest_.inflight => writeRequest_.cnt = writeCount_
    /\ writeRequest_.cnt <= writeCount_

\* the chunks of 1024 and of 2 characters were acknowledged (768 + 1) and the
\* next write is in flight
C19_Witness ==
    /\ Len(acked) = 2
    /\ writeCount_ = 769
    /\ writeRequest_.inflight

\* C20: on an open stream with a non-empty write queue either a write request
\* is in flight or exactly one write retry timer is pending, and not both.
C20_NoStall ==
    (lifecycle = "Open" /\ writeQueue_ # << >>) =>
        \/ writeRequest_.inflight /\ timers.write = 0
        \/ ~writeRequest_.inflight /\ timers.write = 1

====
